---- MODULE Spec2Model ----
(***************************************************************************)
(* Model of the Alpaca profile exporter (src/main.py): the retrying GET    *)
(* (_robust_get), the pagination loop (collect_with_pagination), the CSV   *)
(* record normaliser (_save_csv), the portfolio history normaliser         *)
(* (normalize_portfolio_history_to_rows) and the export run (main).        *)
(*                                                                         *)
(* The HTTP server is the environment: every requests.get is answered by   *)
(* a status and, for a success, a page drawn from a small set of pages.    *)
(***************************************************************************)
EXTENDS Integers, Sequences, FiniteSets, TLC

VARIABLES
    \* _robust_get: one call
    fpc,          \* "idle" | "run" | "returned" | "raised"
    attempt,      \* the loop variable of `for attempt in range(5)`
    events,       \* what the call did so far: requests issued and sleeps taken
    fresult,      \* the value the call returned (a response, or Python's None)
    \* collect_with_pagination: one call
    cpc,          \* "idle" | "loop" | "wait" | "returned" | "raised"
    initial_params, hard_limit,   \* the caller's arguments
    items, params, seen,          \* the locals
    fetches,      \* number of _robust_get calls this collect call made
    req,          \* the params argument of the _robust_get call in flight
    \* the exception in flight, "" when none
    exc,
    \* main
    mpc,          \* "idle" | "call" | "wait" | "done" | "aborted"
    endpoint,     \* index into Endpoints of the endpoint main is at
    files,        \* names of the files written so far, in order
    rows,         \* positions_rows, orders_rows, activities_rows for the summary
    \* _save_csv and normalize_portfolio_history_to_rows: one call each
    csv_in, csv_out, ph_in, ph_out

vars == <<fpc, attempt, events, fresult, cpc, initial_params, hard_limit, items,
          params, seen, fetches, req, exc, mpc, endpoint, files, rows,
          csv_in, csv_out, ph_in, ph_out>>

fetchVars == <<fpc, attempt, events, fresult>>
collectVars == <<cpc, initial_params, hard_limit, items, params, seen, fetches, req>>
mainVars == <<mpc, endpoint, files, rows>>
pureVars == <<csv_in, csv_out, ph_in, ph_out>>

----------------------------------------------------------------------------
(* Bounds of the model *)

\* pages one collect call is served before the server stops handing out tokens
MaxPages == 3
\* largest hard_limit a caller passes
MaxLimit == 3
\* longest list handed to _save_csv
MaxItems == 2
\* longest timestamp array of a portfolio history
MaxTs == 2

----------------------------------------------------------------------------
(* Python values *)

\* Optional strings: what dict.get returns (None when the key is absent).
None == [some |-> FALSE, v |-> ""]
Some(s) == [some |-> TRUE, v |-> s]
\* Python truthiness of an optional string: None and "" are falsy.
Truthy(o) == o.some /\ o.v # ""
\* Python's `a or b`
Or(a, b) == IF Truthy(a) THEN a ELSE b

Min(a, b) == IF a <= b THEN a ELSE b
\* s[:n] for n >= 0
Take(s, n) == SubSeq(s, 1, Min(n, Len(s)))
\* d[k] = v on a copy of the dict d
Put(d, k, v) == [x \in (DOMAIN d) \cup {k} |-> IF x = k THEN v ELSE d[x]]
EmptyDict == [x \in {} |-> ""]

----------------------------------------------------------------------------
(* JSON bodies, as r.json() decodes them.  An object keeps its fields in   *)
(* insertion order; a field's value is a list or a scalar (a string, or    *)
(* null decoded as None).                                                  *)

Scalar(k, s) == [key |-> k, isList |-> FALSE, list |-> <<>>, val |-> Some(s)]
Null(k) == [key |-> k, isList |-> FALSE, list |-> <<>>, val |-> None]
List(k, l) == [key |-> k, isList |-> TRUE, list |-> l, val |-> None]
Obj(fs) == [kind |-> "object", elems |-> <<>>, fields |-> fs]
Arr(es) == [kind |-> "list", elems |-> es, fields |-> <<>>]
NullBody == [kind |-> "null", elems |-> <<>>, fields |-> <<>>]
NumberBody == [kind |-> "number", elems |-> <<>>, fields |-> <<>>]

\* `k in data`
HasKey(data, k) == \E i \in 1..Len(data.fields) : data.fields[i].key = k
\* the field of key k (keys of an object are distinct)
FieldOf(data, k) == data.fields[CHOOSE i \in 1..Len(data.fields) : data.fields[i].key = k]
\* isinstance(data[k], list)
IsListAt(data, k) == HasKey(data, k) /\ FieldOf(data, k).isList
\* data.get(k), used on scalar-valued fields; a list value is truthy and is
\* never a token of the pages modelled here
Get(data, k) == IF HasKey(data, k) /\ ~FieldOf(data, k).isList THEN FieldOf(data, k).val ELSE None
\* r.headers.get(name); headers are a set of <<name, value>> pairs
HeaderGet(headers, name) ==
    IF \E h \in headers : h[1] = name
    THEN Some((CHOOSE h \in headers : h[1] = name)[2])
    ELSE None

\* the objects the API lists
I1 == Obj(<<Scalar("id", "1")>>)
I2 == Obj(<<Scalar("id", "2")>>)
I3 == Obj(<<Scalar("id", "3")>>)

----------------------------------------------------------------------------
(* The server's answers *)

Statuses == {200, 404, 429, 500}

\* the list-bearing part of an object body
ListParts ==
    { <<Scalar("id", "9")>>,
      <<List("orders", <<I1, I2>>)>>,
      <<List("activities", <<I3>>)>>,
      <<List("data", <<I3>>), List("orders", <<I1, I2>>)>>,
      <<List("activities", <<I3>>), List("orders", <<I1, I2>>)>>,
      <<Scalar("orders", "x"), List("activities", <<I3>>)>>,
      <<List("data", <<I1, I2>>), List("activities", <<I3>>), Scalar("orders", "x")>>,
      <<Scalar("orders", "x"), List("data", <<I1, I2>>), List("more", <<I3>>)>>,
      <<List("data", <<>>), List("more", <<I3>>)>> }

\* the paging fields of an object body
TokenParts ==
    { <<>>,
      <<Scalar("next_page_token", "abc")>>,
      <<Scalar("next_page_id", "def")>>,
      <<Scalar("next_page_token", "abc"), Scalar("next_page_id", "def")>>,
      <<Scalar("next_page_token", ""), Scalar("next_page_id", "def")>>,
      <<Null("next_page_token")>> }

HeaderSets ==
    { {},
      {<<"x-next-page-token", "hx">>},
      {<<"next_page_token", "hn">>},
      {<<"x-next-page-token", "hx">>, <<"next_page_token", "hn">>},
      {<<"x-next-page-token", "">>, <<"next_page_token", "hn">>} }

Resp(st, body, hs) == [isNone |-> FALSE, status |-> st, body |-> body, headers |-> hs]
\* Python's None where a response is expected
NoResponse == [isNone |-> TRUE, status |-> 0, body |-> NullBody, headers |-> {}]

\* successful pages: every body shape with few paging variants, and every
\* paging variant on one body shape
Pages ==
    { Resp(200, Obj(lp \o tp), {}) :
        lp \in ListParts, tp \in {<<>>, <<Scalar("next_page_token", "abc")>>} }
    \cup
    { Resp(200, b, hs) :
        b \in {Arr(<<>>), Arr(<<I3>>), Arr(<<I1, I2>>), NullBody, NumberBody},
        hs \in {{}, {<<"x-next-page-token", "hx">>}} }
    \cup
    { Resp(200, Obj(<<List("orders", <<I1, I2>>)>> \o tp), hs) :
        tp \in TokenParts, hs \in HeaderSets }

\* a page that names no next page anywhere
NoPaging(p) ==
    /\ p.headers = {}
    /\ ~HasKey(p.body, "next_page_token")
    /\ ~HasKey(p.body, "next_page_id")

\* The pages the server may answer the request in flight with: once a collect
\* call has been served MaxPages - 1 pages, only pages that name no next page.
Servable ==
    IF cpc = "wait" /\ seen >= MaxPages - 1 THEN {p \in Pages : NoPaging(p)} ELSE Pages

----------------------------------------------------------------------------
(* _robust_get *)

MaxAttempts == 5

Request(st) == [ev |-> "get", n |-> st]
Sleep(n) == [ev |-> "sleep", n |-> n]

\* a slip: the wait loses its base second
SleepForNoBase(a) == a

\* time.sleep(1 + attempt)
SleepFor(a) == 1 + a

\* r.raise_for_status()
RaisesForStatus(st) == st >= 400 /\ st < 600

\* the call itself: _robust_get(url, headers, params)
StartFetch ==
    /\ fpc' = "run"
    /\ attempt' = 0
    /\ events' = <<>>
    /\ fresult' = NoResponse

\* the caller has taken the call's outcome: the frame is gone
EndFetch ==
    /\ fpc' = "idle"
    /\ attempt' = 0
    /\ events' = <<>>
    /\ fresult' = NoResponse

\* requests.get answered 429: sleep and go round the loop
FetchRateLimited ==
    /\ fpc = "run"
    /\ attempt < MaxAttempts
    /\ events' = events \o <<Request(429), Sleep(SleepFor(attempt))>>
    /\ attempt' = attempt + 1
    /\ UNCHANGED <<fpc, fresult, exc>>

\* requests.get answered another unsuccessful status: raise_for_status raises
FetchHttpError ==
    /\ fpc = "run"
    /\ attempt < MaxAttempts
    /\ \E st \in Statuses :
        /\ st # 429
        /\ RaisesForStatus(st)
        /\ events' = Append(events, Request(st))
    /\ fpc' = "raised"
    /\ exc' = "HTTPError"
    /\ UNCHANGED <<attempt, fresult>>

\* requests.get answered a success: return r
FetchOk ==
    /\ fpc = "run"
    /\ attempt < MaxAttempts
    /\ \E p \in Servable :
        /\ ~RaisesForStatus(p.status)
        /\ events' = Append(events, Request(p.status))
        /\ fresult' = p
    /\ fpc' = "returned"
    /\ UNCHANGED <<attempt, exc>>

\* range(5) is exhausted: the function body ends, Python returns None
FetchFallThrough ==
    /\ fpc = "run"
    /\ attempt = MaxAttempts
    /\ fpc' = "returned"
    /\ fresult' = NoResponse
    /\ UNCHANGED <<attempt, events, exc>>

Fetch ==
    /\ \/ FetchRateLimited
       \/ FetchHttpError
       \/ FetchOk
       \/ FetchFallThrough
    /\ UNCHANGED <<collectVars, mainVars, pureVars>>

----------------------------------------------------------------------------
(* collect_with_pagination *)

NoLimit == [set |-> FALSE, n |-> 0]
Limit(n) == [set |-> TRUE, n |-> n]
HardLimits == {NoLimit} \cup {Limit(n) : n \in 0..MaxLimit}

\* a slip: the limit tested against None only, so that 0 is a limit too
LimitReachedNotNone(hl, its) == hl.set /\ Len(its) >= hl.n

\* `hard_limit and len(items) >= hard_limit`: None and 0 are falsy
LimitReached(hl, its) == hl.set /\ hl.n # 0 /\ Len(its) >= hl.n

\* a slip: no body shape breaks the loop
IsPageBodyAny(data) == TRUE

\* isinstance(data, list) or isinstance(data, dict): the branches that do not break
IsPageBody(data) == data.kind \in {"list", "object"}

\* a slip: the first list of an object is taken whatever its key
ExtractFirstList(data) ==
    IF data.kind = "list" THEN data.elems
    ELSE LET list_values == SelectSeq(data.fields, LAMBDA f : f.isList)
         IN IF list_values # <<>> THEN list_values[1].list ELSE <<data>>

\* the items one page adds (lines 141-157), for a list or an object
Extract(data) ==
    IF data.kind = "list" THEN data.elems
    ELSE IF IsListAt(data, "orders") THEN FieldOf(data, "orders").list
    ELSE IF IsListAt(data, "activities") THEN FieldOf(data, "activities").list
    ELSE LET list_values == SelectSeq(data.fields, LAMBDA f : f.isList)
         IN IF list_values # <<>> THEN list_values[1].list ELSE <<data>>

\* a slip: the headers are asked before the body
NextTokenHeadersFirst(r) ==
    LET inHeaders == Or(HeaderGet(r.headers, "x-next-page-token"),
                        HeaderGet(r.headers, "next_page_token"))
    IN IF ~Truthy(inHeaders) /\ r.body.kind = "object"
       THEN Or(Get(r.body, "next_page_token"), Get(r.body, "next_page_id"))
       ELSE inHeaders

\* the next page's token (lines 167-172)
NextToken(r) ==
    LET inBody == IF r.body.kind = "object"
                  THEN Or(Get(r.body, "next_page_token"), Get(r.body, "next_page_id"))
                  ELSE None
    IN IF ~Truthy(inBody)
       THEN Or(HeaderGet(r.headers, "x-next-page-token"), HeaderGet(r.headers, "next_page_token"))
       ELSE inBody

\* params = dict(params); params["page_token"] = next_token
WithToken(ps, tok) == Put(ps, "page_token", tok)

\* the call itself: items = [], params = dict(initial_params or {}), seen = 0
StartCollect(ip, hl) ==
    /\ cpc' = "loop"
    /\ initial_params' = ip
    /\ hard_limit' = hl
    /\ items' = <<>>
    /\ params' = ip
    /\ seen' = 0
    /\ fetches' = 0
    /\ req' = EmptyDict

\* top of the loop: r = _robust_get(url, headers=headers, params=params)
CollectFetch ==
    /\ cpc = "loop"
    /\ cpc' = "wait"
    /\ req' = params
    /\ fetches' = fetches + 1
    /\ StartFetch
    /\ UNCHANGED <<initial_params, hard_limit, items, params, seen, exc, mainVars, pureVars>>

\* a slip: the loop catches the error and returns what it has
CollectRaiseSwallowed ==
    /\ cpc = "wait"
    /\ fpc = "raised"
    /\ cpc' = "returned"
    /\ exc' = ""
    /\ EndFetch
    /\ UNCHANGED <<initial_params, hard_limit, items, params, seen, fetches, req,
                   mainVars, pureVars>>

\* _robust_get raised: nothing catches it here
CollectRaise ==
    /\ cpc = "wait"
    /\ fpc = "raised"
    /\ cpc' = "raised"
    /\ EndFetch
    /\ UNCHANGED <<initial_params, hard_limit, items, params, seen, fetches, req, exc,
                   mainVars, pureVars>>

\* _robust_get returned None: r.json() raises AttributeError
CollectNone ==
    /\ cpc = "wait"
    /\ fpc = "returned"
    /\ fresult.isNone
    /\ cpc' = "raised"
    /\ exc' = "AttributeError"
    /\ EndFetch
    /\ UNCHANGED <<initial_params, hard_limit, items, params, seen, fetches, req,
                   mainVars, pureVars>>

\* _robust_get returned a response: the rest of the loop body (lines 139-178)
CollectPage ==
    /\ cpc = "wait"
    /\ fpc = "returned"
    /\ ~fresult.isNone
    /\ EndFetch
    /\ LET data == fresult.body
           grown == items \o Extract(data)
           next_token == NextToken(fresult)
       IN IF ~IsPageBody(data)
          THEN \* break, before seen += 1
               /\ cpc' = "returned"
               /\ UNCHANGED <<items, params, seen>>
          ELSE /\ seen' = seen + 1
               /\ IF LimitReached(hard_limit, grown)
                  THEN /\ items' = Take(grown, hard_limit.n)
                       /\ cpc' = "returned"
                       /\ UNCHANGED params
                  ELSE /\ items' = grown
                       /\ IF Truthy(next_token)
                          THEN /\ params' = WithToken(params, next_token.v)
                               /\ cpc' = "loop"
                          ELSE /\ cpc' = "returned"
                               /\ UNCHANGED params
    /\ UNCHANGED <<initial_params, hard_limit, fetches, req, exc, mainVars, pureVars>>

\* the caller has taken the call's outcome: the frame is gone
EndCollect ==
    /\ cpc' = "idle"
    /\ initial_params' = EmptyDict
    /\ hard_limit' = NoLimit
    /\ items' = <<>>
    /\ params' = EmptyDict
    /\ seen' = 0
    /\ fetches' = 0
    /\ req' = EmptyDict

Collect ==
    \/ CollectFetch
    \/ CollectRaise
    \/ CollectNone
    \/ CollectPage


----------------------------------------------------------------------------
(* _save_csv: the records handed to csv.DictWriter.  A key is a string,    *)
(* modelled as its sequence of code points, which is what sorted()         *)
(* compares; an item is a dict from keys to strings.                       *)

\* "a", "ab", "b"
CsvKeys == {<<1>>, <<1, 2>>, <<2>>}
CsvValues == {"x", "y"}
CsvObjects == UNION {[ks -> CsvValues] : ks \in SUBSET CsvKeys}

RECURSIVE SeqsUpTo(_, _)
\* the sequences over S of length at most n
SeqsUpTo(S, n) ==
    IF n = 0 THEN {<<>>}
    ELSE LET shorter == SeqsUpTo(S, n - 1)
         IN shorter \cup {Append(q, x) : q \in {t \in shorter : Len(t) = n - 1}, x \in S}

\* what callers hand to _save_csv: a list of dicts, or one dict
CsvInputs ==
    {[kind |-> "list", objs |-> l] : l \in SeqsUpTo(CsvObjects, MaxItems)}
    \cup {[kind |-> "dict", objs |-> <<o>>] : o \in CsvObjects}

\* a slip: keys ordered by length first
StrLessByLength(a, b) ==
    \/ Len(a) < Len(b)
    \/ /\ Len(a) = Len(b)
       /\ \E p \in 1..Len(a) : a[p] < b[p] /\ \A q \in 1..(p - 1) : a[q] = b[q]

RECURSIVE StrLess(_, _)
\* Python's a < b on strings: code point by code point, a proper prefix first
StrLess(a, b) ==
    IF b = <<>> THEN FALSE
    ELSE IF a = <<>> THEN TRUE
    ELSE IF a[1] # b[1] THEN a[1] < b[1]
    ELSE StrLess(Tail(a), Tail(b))

RECURSIVE Sorted(_)
\* sorted(all_keys)
Sorted(S) ==
    IF S = {} THEN <<>>
    ELSE LET least == CHOOSE x \in S : \A y \in S \ {x} : StrLess(x, y)
         IN <<least>> \o Sorted(S \ {least})

\* all_keys: the union of the items' keys
AllKeys(its) == UNION {DOMAIN its[i] : i \in 1..Len(its)}

\* {k: it.get(k, None) for k in fieldnames}
RowOf(it, fieldnames) ==
    [k \in {fieldnames[j] : j \in 1..Len(fieldnames)} |->
        IF k \in DOMAIN it THEN Some(it[k]) ELSE None]

NotWritten == [done |-> FALSE, hasHeader |-> FALSE, header |-> <<>>, records |-> <<>>]
NoCsvInput == [kind |-> "list", objs |-> <<>>]

\* _save_csv(path, items): what the file gets, as the header and the row dicts
SaveCsv ==
    /\ ~csv_out.done
    /\ LET its == IF csv_in.kind = "dict" THEN <<csv_in.objs[1]>> ELSE csv_in.objs
       IN IF its = <<>>
          THEN \* write_text(""): an empty file, no header
               csv_out' = [done |-> TRUE, hasHeader |-> FALSE, header |-> <<>>,
                           records |-> <<>>]
          ELSE LET fieldnames == Sorted(AllKeys(its))
               IN csv_out' = [done |-> TRUE, hasHeader |-> TRUE, header |-> fieldnames,
                              records |-> [i \in 1..Len(its) |-> RowOf(its[i], fieldnames)]]
    /\ UNCHANGED <<fetchVars, collectVars, mainVars, exc, csv_in, ph_in, ph_out>>

----------------------------------------------------------------------------
(* normalize_portfolio_history_to_rows.  A field of the raw object is      *)
(* absent, null or an array of numbers; base_value and timeframe are       *)
(* absent (or null) or a scalar.                                           *)

NoNum == [some |-> FALSE, v |-> 0]
Num(n) == [some |-> TRUE, v |-> n]

Absent == [has |-> FALSE, null |-> FALSE, arr |-> <<>>]
JsonNull == [has |-> TRUE, null |-> TRUE, arr |-> <<>>]
Array(a) == [has |-> TRUE, null |-> FALSE, arr |-> a]

\* the arrays of length at most n that start the series a
Prefixes(a, n) == {SubSeq(a, 1, k) : k \in 0..n}
ArrayFields(a) == {Absent, JsonNull} \cup {Array(x) : x \in Prefixes(a, MaxTs)}

TsSeries == [i \in 1..(MaxTs + 1) |-> 1700000000 + 3600 * (i - 1)]
EquitySeries == [i \in 1..(MaxTs + 1) |-> 100 + i]
ProfitSeries == [i \in 1..(MaxTs + 1) |-> i]
PctSeries == [i \in 1..(MaxTs + 1) |-> 10 + i]

PhObjects ==
    [isObject : {TRUE}, timestamp : ArrayFields(TsSeries), equity : ArrayFields(EquitySeries),
     profit_loss : ArrayFields(ProfitSeries), profit_loss_pct : ArrayFields(PctSeries),
     base_value : {None, Some("100")}, timeframe : {None, Some("1D")}]
\* a body that is not an object: a list, a number, null
NotAnObject ==
    [isObject |-> FALSE, timestamp |-> Absent, equity |-> Absent, profit_loss |-> Absent,
     profit_loss_pct |-> Absent, base_value |-> None, timeframe |-> None]
PhInputs == PhObjects \cup {NotAnObject}

\* ph_json.get(k, []) or []
ArrayOrEmpty(f) == IF f.has /\ ~f.null THEN f.arr ELSE <<>>

\* a slip: past the end of the array its last value is repeated
ElemOrLast(a, i) == IF a = <<>> THEN NoNum ELSE Num(a[Min(i, Len(a))])

\* a[i] if i < len(a) else None, for the i-th row (rows count from 1 here)
ElemOrNone(a, i) == IF i <= Len(a) THEN Num(a[i]) ELSE NoNum

\* datetime.fromtimestamp(t, tz=timezone.utc): the day since the epoch and
\* the hour, minute and second of that day
UtcOf(t) == <<t \div 86400, (t % 86400) \div 3600, (t % 3600) \div 60, t % 60>>

NotRun == [done |-> FALSE, rows |-> <<>>]

\* normalize_portfolio_history_to_rows(ph_json)
Normalize ==
    /\ ~ph_out.done
    /\ IF ~ph_in.isObject \/ ~ph_in.timestamp.has
       THEN ph_out' = [done |-> TRUE, rows |-> <<>>]
       ELSE LET ts == ArrayOrEmpty(ph_in.timestamp)
                eq == ArrayOrEmpty(ph_in.equity)
                pl == ArrayOrEmpty(ph_in.profit_loss)
                pl_pct == ArrayOrEmpty(ph_in.profit_loss_pct)
                base == ph_in.base_value
            IN ph_out' = [done |-> TRUE,
                          rows |-> [i \in 1..Len(ts) |->
                            [timestamp |-> ts[i],
                             datetime_utc |-> UtcOf(ts[i]),
                             equity |-> ElemOrNone(eq, i),
                             profit_loss |-> ElemOrNone(pl, i),
                             profit_loss_pct |-> ElemOrNone(pl_pct, i),
                             base_value |-> base,
                             timeframe |-> ph_in.timeframe]]]
    /\ UNCHANGED <<fetchVars, collectVars, mainVars, exc, csv_in, csv_out, ph_in>>

\* no call of either function is under way
PureIdle ==
    /\ csv_in = NoCsvInput /\ csv_out = NotWritten
    /\ ph_in = NotAnObject /\ ph_out = NotRun

----------------------------------------------------------------------------
(* main: the export run *)

Endpoints == <<"account", "clock", "positions", "orders", "activities",
               "portfolio_history", "summary">>

\* get_account, get_clock, get_positions, get_portfolio_history call _robust_get
Direct == {"account", "clock", "positions", "portfolio_history"}
\* get_orders, get_activities call collect_with_pagination
Paged == {"orders", "activities"}

\* the two files main writes for an endpoint, in the order it writes them
JsonFile(e) == IF e = "portfolio_history" THEN "portfolio_history_raw.json" ELSE e \o ".json"
CsvFile(e) == IF e = "portfolio_history" THEN "portfolio_history_rows.csv" ELSE e \o ".csv"

\* the params get_orders and get_activities build
PagedParams(e) ==
    IF e = "orders"
    THEN [x \in {"status", "limit", "nested", "after", "until"} |->
            CASE x = "status" -> "all" [] x = "limit" -> "500" [] x = "nested" -> "true"
              [] x = "after" -> "t0" [] OTHER -> "t1"]
    ELSE [x \in {"direction", "page_size", "after", "until"} |->
            CASE x = "direction" -> "desc" [] x = "page_size" -> "100"
              [] x = "after" -> "t0" [] OTHER -> "t1"]

\* _save_csv(path, data) raises on a truthy value that is neither a dict nor a
\* list: `for it in items` cannot iterate a number
SaveCsvRaises(data) == data.kind = "number"

\* len(x) if isinstance(x, list) else 1
RowCount(data) == IF data.kind = "list" THEN Len(data.elems) ELSE 1

\* the index of rows an endpoint's count is kept at, 0 when it is not counted
RowSlot(e) == CASE e = "positions" -> 1 [] e = "orders" -> 2 [] e = "activities" -> 3 [] OTHER -> 0

Counted(e, n) == IF RowSlot(e) = 0 THEN rows ELSE [rows EXCEPT ![RowSlot(e)] = n]

\* print("Fetching ..."); x = get_x(...)  -- or, last, the summary
MainCall ==
    /\ mpc = "call"
    /\ LET e == Endpoints[endpoint]
       IN \/ /\ e \in Direct
             /\ StartFetch
             /\ mpc' = "wait"
             /\ UNCHANGED <<collectVars, endpoint, files>>
          \/ /\ e \in Paged
             /\ StartCollect(PagedParams(e), NoLimit)
             /\ mpc' = "wait"
             /\ UNCHANGED <<fetchVars, endpoint, files>>
          \/ /\ e = "summary"
             /\ files' = files \o <<JsonFile(e), CsvFile(e)>>
             /\ mpc' = "done"
             /\ UNCHANGED <<fetchVars, collectVars, endpoint>>
    /\ UNCHANGED <<exc, rows, pureVars>>

\* _robust_get returned to get_x: .json(), save_json, _save_csv
MainSaveDirect ==
    /\ mpc = "wait"
    /\ Endpoints[endpoint] \in Direct
    /\ fpc = "returned"
    /\ EndFetch
    /\ LET e == Endpoints[endpoint]
           data == fresult.body
       IN IF fresult.isNone
          THEN \* None.json()
               /\ mpc' = "aborted"
               /\ exc' = "AttributeError"
               /\ UNCHANGED <<endpoint, files, rows>>
          ELSE IF e # "portfolio_history" /\ SaveCsvRaises(data)
          THEN /\ files' = Append(files, JsonFile(e))
               /\ mpc' = "aborted"
               /\ exc' = "TypeError"
               /\ UNCHANGED <<endpoint, rows>>
          ELSE /\ files' = files \o <<JsonFile(e), CsvFile(e)>>
               /\ rows' = Counted(e, RowCount(data))
               /\ endpoint' = endpoint + 1
               /\ mpc' = "call"
               /\ UNCHANGED exc
    /\ UNCHANGED <<collectVars, pureVars>>

\* collect_with_pagination returned to get_x: save_json, _save_csv
MainSavePaged ==
    /\ mpc = "wait"
    /\ Endpoints[endpoint] \in Paged
    /\ cpc = "returned"
    /\ EndCollect
    /\ LET e == Endpoints[endpoint]
       IN /\ files' = files \o <<JsonFile(e), CsvFile(e)>>
          /\ rows' = Counted(e, Len(items))
    /\ endpoint' = endpoint + 1
    /\ mpc' = "call"
    /\ UNCHANGED <<fetchVars, exc, pureVars>>

\* the call raised: main catches nothing before the preview, the run ends
MainAbort ==
    /\ mpc = "wait"
    /\ \/ /\ Endpoints[endpoint] \in Direct
          /\ fpc = "raised"
          /\ EndFetch
          /\ UNCHANGED collectVars
       \/ /\ Endpoints[endpoint] \in Paged
          /\ cpc = "raised"
          /\ EndCollect
          /\ UNCHANGED fetchVars
    /\ mpc' = "aborted"
    /\ UNCHANGED <<exc, endpoint, files, rows, pureVars>>

Main ==
    \/ MainCall
    \/ MainSaveDirect
    \/ MainSavePaged
    \/ MainAbort

Init ==
    /\ mpc = "call" /\ endpoint = 1 /\ files = <<>> /\ rows = <<0, 0, 0>>
    /\ fpc = "idle" /\ attempt = 0 /\ events = <<>> /\ fresult = NoResponse
    /\ cpc = "idle" /\ initial_params = EmptyDict /\ hard_limit = NoLimit
    /\ items = <<>> /\ params = EmptyDict /\ seen = 0 /\ fetches = 0 /\ req = EmptyDict
    /\ exc = ""
    /\ PureIdle

Next == Fetch \/ Collect \/ Main

Spec == Init /\ [][Next]_vars

\* what callers pass as initial_params (None is taken as the empty dict)
ParamSets == {EmptyDict, [x \in {"limit", "status"} |-> IF x = "limit" THEN "500" ELSE "all"]}

(* A direct call of collect_with_pagination with any arguments *)
InitCollect ==
    /\ initial_params \in ParamSets
    /\ hard_limit \in HardLimits
    /\ cpc = "loop" /\ items = <<>> /\ params = initial_params /\ seen = 0
    /\ fetches = 0 /\ req = EmptyDict
    /\ fpc = "idle" /\ attempt = 0 /\ events = <<>> /\ fresult = NoResponse
    /\ exc = ""
    /\ mpc = "idle" /\ endpoint = 0 /\ files = <<>> /\ rows = <<0, 0, 0>>
    /\ PureIdle

NextCollect == Fetch \/ Collect

SpecCollect == InitCollect /\ [][NextCollect]_vars

\* nothing of the export run is under way
RunIdle ==
    /\ mpc = "idle" /\ endpoint = 0 /\ files = <<>> /\ rows = <<0, 0, 0>>
    /\ fpc = "idle" /\ attempt = 0 /\ events = <<>> /\ fresult = NoResponse
    /\ cpc = "idle" /\ initial_params = EmptyDict /\ hard_limit = NoLimit
    /\ items = <<>> /\ params = EmptyDict /\ seen = 0 /\ fetches = 0 /\ req = EmptyDict
    /\ exc = ""

(* A direct call of _save_csv with any items *)
InitCsv ==
    /\ RunIdle
    /\ csv_in \in CsvInputs /\ csv_out = NotWritten
    /\ ph_in = NotAnObject /\ ph_out = NotRun

SpecCsv == InitCsv /\ [][SaveCsv]_vars

(* A direct call of normalize_portfolio_history_to_rows with any body *)
InitHistory ==
    /\ RunIdle
    /\ csv_in = NoCsvInput /\ csv_out = NotWritten
    /\ ph_in \in PhInputs /\ ph_out = NotRun

SpecHistory == InitHistory /\ [][Normalize]_vars

----------------------------------------------------------------------------
(* Properties *)

\* the statuses of the requests a _robust_get call issued, in order
Got == SelectSeq(events, LAMBDA e : e.ev = "get")
\* the waits it took, in order
Waits == SelectSeq(events, LAMBDA e : e.ev = "sleep")
RECURSIVE SumN(_)
SumN(s) == IF s = <<>> THEN 0 ELSE s[1].n + SumN(Tail(s))
\* the number of requests issued before event i
AttemptIndex(i) == Cardinality({j \in 1..(i - 1) : events[j].ev = "get"})
\* the call is over, one way or the other
FetchOver == fpc \in {"returned", "raised"}

(* C1: when all 5 attempts of one _robust_get call are answered 429, the   *)
(* call ends in a RateLimitExhausted failure and never returns None.       *)
C1_RateLimitExhausted ==
    (FetchOver /\ Len(Got) = MaxAttempts /\ \A i \in 1..Len(Got) : Got[i].n = 429)
        => (fpc = "raised" /\ exc = "RateLimitExhausted")

(* C2: in one _robust_get call at most 5 requests are issued; a 429 on     *)
(* attempt i is followed at once by a wait of exactly 1 + i; no wait       *)
(* follows any other answer; after k 429s and then a 200 the call returns  *)
(* that 200, on request k + 1, having slept 1 + 2 + ... + k.               *)
C2_RetrySchedule ==
    /\ Len(Got) <= 5
    /\ \A i \in 1..Len(events) :
        /\ (events[i].ev = "get" /\ events[i].n = 429)
              => (i < Len(events) /\ events[i + 1] = Sleep(1 + AttemptIndex(i)))
        /\ events[i].ev = "sleep" => (i > 1 /\ events[i - 1] = Request(429))
    /\ (fpc = "returned" /\ Len(Got) > 0 /\ Got[Len(Got)].n = 200)
          => LET k == Len(Got) - 1
             IN /\ k \in 0..4
                /\ \A i \in 1..k : Got[i].n = 429
                /\ ~fresult.isNone /\ fresult.status = 200 /\ fresult \in Pages
                /\ 2 * SumN(Waits) = k * (k + 1)

\* three 429s, then a 200 returned on the 4th request after 6 units of sleep
C2_Witness ==
    /\ fpc = "returned" /\ ~fresult.isNone
    /\ Len(Got) = 4 /\ Got[4].n = 200 /\ Got[3].n = 429
    /\ SumN(Waits) = 6

\* the claims' reading of the page: what one page holds
C_Items(body) ==
    IF body.kind = "list" THEN body.elems
    ELSE IF \E i \in 1..Len(body.fields) : body.fields[i].key = "orders" /\ body.fields[i].isList
    THEN body.fields[CHOOSE i \in 1..Len(body.fields) : body.fields[i].key = "orders"].list
    ELSE IF \E i \in 1..Len(body.fields) : body.fields[i].key = "activities" /\ body.fields[i].isList
    THEN body.fields[CHOOSE i \in 1..Len(body.fields) : body.fields[i].key = "activities"].list
    ELSE LET lists == {i \in 1..Len(body.fields) : body.fields[i].isList}
         IN IF lists # {}
            THEN body.fields[CHOOSE i \in lists : \A j \in lists : i <= j].list
            ELSE <<body>>

\* the claims' reading of the page: the four places a token is looked for, in
\* order of preference; a place holds a token when it holds a non-empty string
C_Places(r) ==
    << IF r.body.kind = "object" THEN Get(r.body, "next_page_token") ELSE None,
       IF r.body.kind = "object" THEN Get(r.body, "next_page_id") ELSE None,
       HeaderGet(r.headers, "x-next-page-token"),
       HeaderGet(r.headers, "next_page_token") >>
C_Holds(o) == o.some /\ o.v # ""
C_HasToken(r) == \E i \in 1..4 : C_Holds(C_Places(r)[i])
C_Token(r) ==
    C_Places(r)[CHOOSE i \in 1..4 :
                  C_Holds(C_Places(r)[i]) /\ \A j \in 1..(i - 1) : ~C_Holds(C_Places(r)[j])].v

\* the loop body is about to run on the page _robust_get returned
OnPage == cpc = "wait" /\ fpc = "returned" /\ ~fresult.isNone /\ cpc' # "wait"
WellFormed == fresult.body.kind \in {"list", "object"}
\* with this page the accumulator reaches a positive hard limit
HitsLimit ==
    /\ hard_limit.set /\ hard_limit.n > 0
    /\ Len(items) + Len(C_Items(fresult.body)) >= hard_limit.n
IsPrefix(s, t) == Len(s) <= Len(t) /\ s = SubSeq(t, 1, Len(s))

(* C3: with a hard limit set (0 included) the returned sequence never has  *)
(* more than hard_limit items, and no page is fetched once the accumulator *)
(* has reached the limit.                                                  *)
C3_HardLimit ==
    hard_limit.set =>
        /\ cpc = "returned" => Len(items) <= hard_limit.n
        /\ cpc \in {"loop", "wait"} => (seen = 0 \/ Len(items) < hard_limit.n)

\* what one step of the loop does with a page, and how the next fetch goes out
C4_PageStep ==
    /\ (OnPage /\ WellFormed /\ ~HitsLimit) =>
         /\ initial_params' = initial_params
         /\ items' = items \o C_Items(fresult.body)
         /\ IF C_HasToken(fresult)
            THEN /\ cpc' = "loop"
                 /\ DOMAIN params' = DOMAIN params \cup {"page_token"}
                 /\ params'["page_token"] = C_Token(fresult)
                 /\ \A k \in DOMAIN params : k # "page_token" => params'[k] = params[k]
            ELSE /\ cpc' = "returned"
                 /\ params' = params
    /\ (cpc = "loop" /\ cpc' # "loop") =>
         /\ cpc' = "wait" /\ fpc' = "run"
         /\ req' = params /\ params' = params /\ initial_params' = initial_params
         /\ fetches' = fetches + 1

\* fetches issued against pages served, and the caller's parameters kept
C4_Counts ==
    /\ cpc = "loop" => fetches = seen
    /\ cpc = "wait" => (fetches = seen + 1 /\ req = params)
    /\ \A k \in DOMAIN initial_params : k \in DOMAIN params /\ params[k] = initial_params[k]

(* C4: after a page that did not stop collection the token is the first    *)
(* present of body next_page_token, body next_page_id, header              *)
(* x-next-page-token, header next_page_token; with a token the next fetch  *)
(* is issued with page_token set to it, every other parameter and the      *)
(* caller's initial_params unchanged; with none collection stops.  One     *)
(* fetch is issued per page and the pages' items are appended in order.    *)
C4_NextPage == []C4_Counts /\ [][C4_PageStep]_vars

\* the third fetch goes out with the second page's header token, the fourth
\* place looked at, beside the caller's own parameters
C4_Witness ==
    /\ cpc = "wait" /\ fpc = "run" /\ seen = 2 /\ fetches = 3
    /\ "limit" \in DOMAIN req /\ req["limit"] = "500"
    /\ req["page_token"] = "hn"
    /\ "page_token" \notin DOMAIN initial_params
    /\ Len(items) = 4

(* C5: the items a page adds are its elements when the body is a list;     *)
(* for an object the list under orders, else the list under activities,    *)
(* else the first list-typed value in insertion order, else the object     *)
(* itself as one item.  A first page that is an object with no list and no *)
(* token ends the call after one iteration with that one item.             *)
C5_Extraction ==
    [][ (OnPage /\ WellFormed) =>
          /\ IF hard_limit.set
             THEN IsPrefix(items', items \o C_Items(fresult.body))
             ELSE items' = items \o C_Items(fresult.body)
          /\ (/\ seen = 0 /\ fresult.body.kind = "object"
              /\ \A i \in 1..Len(fresult.body.fields) : ~fresult.body.fields[i].isList
              /\ ~C_HasToken(fresult))
                => /\ cpc' = "returned" /\ seen' = 1 /\ fetches' = 1
                   /\ items' = <<fresult.body>> ]_vars

\* the single-object endpoint: one fetch, one iteration, the object itself
C5_Witness ==
    /\ cpc = "returned" /\ seen = 1 /\ fetches = 1
    /\ items = <<Obj(<<Scalar("id", "9")>>)>>

(* C6: a page body that is neither a list nor an object stops the call at  *)
(* once: no item added, no further fetch, no error, the items of the       *)
(* earlier pages returned unchanged.                                       *)
C6_Malformed ==
    [][ /\ (OnPage /\ ~WellFormed) =>
             /\ cpc' = "returned" /\ items' = items /\ exc' = "" /\ exc = ""
             /\ fetches' = fetches /\ fpc' = "idle"
        /\ (cpc = "returned" /\ cpc' = "returned") =>
             (items' = items /\ fetches' = fetches /\ fpc' = "idle") ]_vars

\* a malformed third page after two pages of items: the four items are returned
C6_Witness ==
    /\ cpc = "returned" /\ exc = ""
    /\ seen = 2 /\ fetches = 3
    /\ Len(items) = 4

\* the files main has written when it is at endpoint number n
FilesBefore(n) ==
    LET F[i \in 0..Len(Endpoints)] ==
          IF i = 0 THEN <<>>
          ELSE F[i - 1] \o <<JsonFile(Endpoints[i]), CsvFile(Endpoints[i])>>
    IN F[n - 1]

\* where an HTTP error leaves the fetcher and the run, and what may follow it
C7_Raised ==
    /\ (Len(Got) > 0 /\ Got[Len(Got)].n \notin {200, 429})
          => /\ fpc = "raised" /\ exc = "HTTPError"
             /\ events[Len(events)].ev = "get"
             /\ \A i \in 1..(Len(Got) - 1) : Got[i].n = 429
    /\ exc = "HTTPError"
          => /\ mpc \in {"wait", "aborted"}
             /\ files = FilesBefore(endpoint)
             /\ cpc \in {"wait", "raised", "idle"}
             /\ (fpc = "idle" /\ cpc = "idle") => mpc = "aborted"

\* nothing is fetched, written or returned once the error is in flight
C7_AfterRaise ==
    exc = "HTTPError"
        => /\ exc' = exc /\ files' = files /\ endpoint' = endpoint
           /\ fpc' \in {"raised", "idle"} /\ events' \in {events, <<>>}
           /\ cpc' \in {"raised", "idle"}
           /\ mpc' \in {"wait", "aborted"}

(* C7: an unsuccessful status other than 429 fails the _robust_get call    *)
(* with an HTTP error on that request, with no sleep and no further        *)
(* request; the collector does not catch it and returns nothing; the run   *)
(* ends on it: no later fetch, no later file, the earlier files remain.    *)
C7_HttpErrorAborts == []C7_Raised /\ [][C7_AfterRaise]_vars

\* a 404 on a later page of activities: the collector has items and raises,
\* the four earlier endpoints' files are there
C7_Witness ==
    /\ exc = "HTTPError" /\ cpc = "raised" /\ mpc = "wait"
    /\ Endpoints[endpoint] = "activities"
    /\ Len(items) > 0
    /\ Len(files) = 8

\* the fetch outcomes that stop the loop
C10_Stops ==
    \/ fpc = "raised"
    \/ fresult.isNone
    \/ ~WellFormed
    \/ HitsLimit
    \/ ~C_HasToken(fresult)

C_LexBefore(a, b) ==
    \/ \E p \in 1..Min(Len(a), Len(b)) :
          a[p] < b[p] /\ \A q \in 1..(p - 1) : a[q] = b[q]
    \/ Len(a) < Len(b) /\ \A q \in 1..Len(a) : a[q] = b[q]

(* C8: for a non-empty list of objects every record has the same fields,   *)
(* the union of the inputs' keys in lexicographic order, with the item's   *)
(* own value for a key it has and null for one it lacks, one record per    *)
(* item in input order; an empty list gives no record and no header; a     *)
(* single object gives exactly one record, equal to it.                    *)
C8_Records ==
    csv_out.done =>
        LET in == csv_in.objs
            hdr == csv_out.header
            recs == csv_out.records
        IN /\ (csv_in.kind = "list" /\ in = <<>>) =>
                 (~csv_out.hasHeader /\ recs = <<>>)
           /\ (csv_in.kind = "list" /\ in # <<>>) =>
                 /\ csv_out.hasHeader
                 /\ \A j \in 1..(Len(hdr) - 1) : C_LexBefore(hdr[j], hdr[j + 1])
                 /\ {hdr[j] : j \in 1..Len(hdr)} = UNION {DOMAIN in[i] : i \in 1..Len(in)}
                 /\ Len(recs) = Len(in)
                 /\ \A i \in 1..Len(in) :
                      /\ DOMAIN recs[i] = {hdr[j] : j \in 1..Len(hdr)}
                      /\ \A k \in DOMAIN recs[i] :
                           IF k \in DOMAIN in[i]
                           THEN recs[i][k].some /\ recs[i][k].v = in[i][k]
                           ELSE ~recs[i][k].some
           /\ csv_in.kind = "dict" =>
                 /\ Len(recs) = 1
                 /\ DOMAIN recs[1] = DOMAIN in[1]
                 /\ \A k \in DOMAIN in[1] : recs[1][k].some /\ recs[1][k].v = in[1][k]
                 /\ {hdr[j] : j \in 1..Len(hdr)} = DOMAIN in[1]

\* two items with different keys: the header is a, ab, b and a record has a null
C8_Witness ==
    /\ csv_out.done /\ csv_in.kind = "list" /\ Len(csv_in.objs) = 2
    /\ csv_out.header = << <<1>>, <<1, 2>>, <<2>> >>
    /\ DOMAIN csv_in.objs[1] = {<<2>>, <<1, 2>>}
    /\ ~csv_out.records[1][<<1>>].some
    /\ csv_out.records[2][<<1>>].some

(* C9: a body that is not an object or has no timestamp field gives no     *)
(* row; otherwise there is one row per element of the timestamp array, row *)
(* i carrying timestamp[i] and equity[i], profit_loss[i],                  *)
(* profit_loss_pct[i] where the array reaches i and null where it does     *)
(* not, and base_value and timeframe as given, the same in every row.      *)
C9_HistoryRows ==
    ph_out.done =>
        IF ~ph_in.isObject \/ ~ph_in.timestamp.has
        THEN ph_out.rows = <<>>
        ELSE LET ts == ph_in.timestamp.arr
                 Cell(f, i) == IF f.has /\ ~f.null /\ i <= Len(f.arr)
                               THEN Num(f.arr[i]) ELSE NoNum
             IN /\ Len(ph_out.rows) = Len(ts)
                /\ \A i \in 1..Len(ts) :
                     /\ ph_out.rows[i].timestamp = ts[i]
                     /\ ph_out.rows[i].equity = Cell(ph_in.equity, i)
                     /\ ph_out.rows[i].profit_loss = Cell(ph_in.profit_loss, i)
                     /\ ph_out.rows[i].profit_loss_pct = Cell(ph_in.profit_loss_pct, i)
                     /\ ph_out.rows[i].base_value = ph_in.base_value
                     /\ ph_out.rows[i].timeframe = ph_in.timeframe

\* two timestamps, one equity, no profit_loss, two profit_loss_pct
C9_Witness ==
    /\ ph_out.done /\ Len(ph_out.rows) = 2
    /\ ph_in.equity = Array(<<101>>) /\ ph_in.profit_loss = Array(<<>>)
    /\ ph_out.rows[1].equity = Num(101) /\ ph_out.rows[2].equity = NoNum
    /\ ph_out.rows[1].profit_loss = NoNum /\ ph_out.rows[2].profit_loss = NoNum
    /\ ph_out.rows[2].profit_loss_pct = Num(12)
    /\ ph_out.rows[1].base_value = Some("100") /\ ph_out.rows[2].timeframe = Some("1D")

====
